---- MODULE Spec2Model ----
(***************************************************************************)
(* Model of the Graphiti agent (src/graphiti_agent): the search_graphiti   *)
(* retrieval tool and the interactive session of agent.main(), the helper  *)
(* llm_config.initialize_graphiti_with_clean_state, and the connection     *)
(* test suite of tests/test_connections.py.                                *)
(*                                                                         *)
(* Python values are tagged records [t, v]; text that the code inspects    *)
(* character by character (the user's input, the streamed fragments) is a  *)
(* sequence of one-character strings.                                      *)
(***************************************************************************)
EXTENDS Integers, Sequences, FiniteSets, TLC

\* ---------------------------------------------------------------- bounds
\* Largest number of raw records in one search response.
MaxResults == 2
\* Largest number of queries (non-exit inputs) read in one session.
MaxTurns == 2
\* Largest number of text fragments in one streamed answer.
MaxFragments == 2
\* Largest number of tool calls the backend makes in one run.
MaxToolCalls == 1

\* ---------------------------------------------------------- Python values
None_ == [t |-> "none", v |-> ""]
Str(s) == [t |-> "str", v |-> s]
Datetime(d) == [t |-> "datetime", v |-> d]

\* Python truthiness of a value: None and "" are falsy.
Truthy(x) == x.t = "datetime" \/ (x.t = "str" /\ x.v # "")

\* str(x): a str is itself, a datetime prints with a space between date and
\* time (not the ISO "T"), None prints as "None".
str(x) ==
    IF x.t = "str" THEN x.v
    ELSE IF x.t = "none" THEN "None"
    ELSE IF x.v = "2020-01-01T00:00:00" THEN "2020-01-01 00:00:00"
    ELSE IF x.v = "2021-06-30T00:00:00" THEN "2021-06-30 00:00:00"
    ELSE "datetime"

\* hasattr(result, name): raw records are functions from the attribute names
\* they have to values.
hasattr(result, name) == name \in DOMAIN result

\* ------------------------------------------------- raw fact-store records
T1 == Datetime("2020-01-01T00:00:00")
T2 == Datetime("2021-06-30T00:00:00")

\* Records with identifier "1" and statement "A" and every combination of
\* the optional attributes (valid_at may also be present but None).
OptionalVariants ==
    LET base == [uuid |-> Str("1"), fact |-> Str("A")]
        va == {<<>>, [valid_at |-> None_], [valid_at |-> T1]}
        ia == {<<>>, [invalid_at |-> T2]}
        sa == {<<>>, [source_node_uuid |-> Str("n1")]}
    IN {base @@ a @@ b @@ c : a \in va, b \in ia, c \in sa}

\* Records whose identifier or statement is missing, None or empty.
MalformedRecords ==
    { [fact |-> Str("C")],
      [uuid |-> None_, fact |-> Str("C")],
      [uuid |-> Str(""), fact |-> Str("bad")],
      [uuid |-> Str("3")],
      [uuid |-> Str("3"), fact |-> None_],
      [uuid |-> Str("4"), fact |-> Str("")],
      [other |-> Str("x")] }

RawRecords ==
    OptionalVariants \cup MalformedRecords \cup {[uuid |-> Str("2"), fact |-> Str("B")]}

RECURSIVE SeqsUpTo(_, _)
SeqsUpTo(S, n) ==
    IF n = 0 THEN {<<>>}
    ELSE LET shorter == SeqsUpTo(S, n - 1)
         IN shorter \cup {Append(s, x) : s \in {q \in shorter : Len(q) = n - 1}, x \in S}

\* What `await graphiti.search(query)` can do: raise, return None, return a
\* value that is not a sequence, or return a list of raw records.
Response(kind, exc, items) == [kind |-> kind, exc |-> exc, items |-> items]

ResponsesUpTo(n) ==
    {Response("raise", e, <<>>) : e \in {"Exception", "BaseException"}}
    \cup {Response("none", "none", <<>>), Response("scalar", "none", <<>>)}
    \cup {Response("list", "none", s) : s \in SeqsUpTo(RawRecords, n)}

Responses == ResponsesUpTo(MaxResults)

\* ------------------------------------------------------- search_graphiti
Return(value) == [status |-> "return", exc |-> "none", value |-> value]
Raise(exc) == [status |-> "raise", exc |-> exc, value |-> <<>>]

\* CanFormat with the optional attributes read without hasattr: a record
\* lacking one of them raises AttributeError.
CanFormat_all_required(result) ==
    /\ {"uuid", "fact", "valid_at", "invalid_at", "source_node_uuid"} \subseteq DOMAIN result
    /\ result.uuid.t = "str"
    /\ result.fact.t = "str"
    /\ result.source_node_uuid.t \in {"str", "none"}

\* GraphitiSearchResult(uuid=..., fact=..., source_node_uuid=...) succeeds
\* when result.uuid and result.fact exist (else AttributeError) and pass
\* the model's validation: uuid and fact are str, source_node_uuid is str or
\* None (else ValidationError).
CanFormat(result) ==
    /\ hasattr(result, "uuid") /\ hasattr(result, "fact")
    /\ result.uuid.t = "str"
    /\ result.fact.t = "str"
    /\ hasattr(result, "source_node_uuid") =>
           result.source_node_uuid.t \in {"str", "none"}

GraphitiSearchResult(uuid, fact, valid_at, invalid_at, source_node_uuid) ==
    [uuid |-> uuid, fact |-> fact, valid_at |-> valid_at,
     invalid_at |-> invalid_at, source_node_uuid |-> source_node_uuid]

\* One iteration of the formatting loop (agent.py lines 102-112).
FormatResult(result) ==
    GraphitiSearchResult(
        result.uuid,
        result.fact,
        IF hasattr(result, "valid_at") /\ Truthy(result.valid_at)
            THEN Str(str(result.valid_at)) ELSE None_,
        IF hasattr(result, "invalid_at") /\ Truthy(result.invalid_at)
            THEN Str(str(result.invalid_at)) ELSE None_,
        IF hasattr(result, "source_node_uuid")
            THEN result.source_node_uuid ELSE None_)

\* FormatResults with a loop that skips a record it cannot format instead of
\* raising.
RECURSIVE FormatResults_skip(_, _, _)
FormatResults_skip(items, i, formatted_results) ==
    IF i > Len(items) THEN Return(formatted_results)
    ELSE IF ~CanFormat(items[i])
    THEN FormatResults_skip(items, i + 1, formatted_results)
    ELSE FormatResults_skip(items, i + 1,
                            Append(formatted_results, FormatResult(items[i])))

\* FormatResults with a loop that inserts at the front instead of appending.
RECURSIVE FormatResults_front(_, _, _)
FormatResults_front(items, i, formatted_results) ==
    IF i > Len(items) THEN Return(formatted_results)
    ELSE IF ~CanFormat(items[i]) THEN Raise("Exception")
    ELSE FormatResults_front(items, i + 1,
                             <<FormatResult(items[i])>> \o formatted_results)

\* The for loop: the first record that cannot be formatted raises out of
\* the loop, and the records formatted so far are lost with it.
RECURSIVE FormatResults(_, _, _)
FormatResults(items, i, formatted_results) ==
    IF i > Len(items) THEN Return(formatted_results)
    ELSE IF ~CanFormat(items[i]) THEN Raise("Exception")
    ELSE FormatResults(items, i + 1,
                       Append(formatted_results, FormatResult(items[i])))

\* The body of the try block: the search call, len(results), the loop.
SearchBody(response) ==
    IF response.kind = "raise" THEN Raise(response.exc)
    ELSE IF response.kind \in {"none", "scalar"} THEN Raise("Exception")
    ELSE FormatResults(response.items, 1, <<>>)

\* search_graphiti without its except clause.
search_graphiti_uncaught(response) == SearchBody(response)

\* try: ... except Exception: return []   (BaseException is not caught).
search_graphiti(response) ==
    LET body == SearchBody(response)
    IN IF body.status = "raise" /\ body.exc = "Exception"
       THEN Return(<<>>)
       ELSE body

\* The responses the session's runs draw from: every kind of response, the
\* lists with at most one record. A run sees of a tool call only whether it
\* returned or raised.
RunResponses == ResponsesUpTo(1)

\* ------------------------------------------------------------ user text
\* Text as a sequence of one-character strings.
UpperCase == <<"B", "D", "E", "G", "H", "I", "O", "Q", "T", "U", "X", "Y">>
LowerCase == <<"b", "d", "e", "g", "h", "i", "o", "q", "t", "u", "x", "y">>

\* str.lower() on one character and on a text.
LowerChar(c) ==
    IF \E i \in 1..Len(UpperCase) : UpperCase[i] = c
    THEN LowerCase[CHOOSE i \in 1..Len(UpperCase) : UpperCase[i] = c]
    ELSE c

lower(text) == [i \in 1..Len(text) |-> LowerChar(text[i])]

\* The exit vocabulary of line 182.
ExitTokens ==
    { <<"e", "x", "i", "t">>, <<"q", "u", "i", "t">>,
      <<"b", "y", "e">>, <<"g", "o", "o", "d", "b", "y", "e">> }

\* IsExit without the call of lower().
IsExit_case_sensitive(user_input) == user_input \in ExitTokens

\* user_input.lower() in ['exit', 'quit', 'bye', 'goodbye']
IsExit(user_input) == lower(user_input) \in ExitTokens

UpperChar(c) ==
    IF \E i \in 1..Len(LowerCase) : LowerCase[i] = c
    THEN UpperCase[CHOOSE i \in 1..Len(LowerCase) : LowerCase[i] = c]
    ELSE c

\* text is token written in some mix of upper and lower case letters.
SameIgnoringCase(text, token) ==
    /\ Len(text) = Len(token)
    /\ \A i \in 1..Len(token) : text[i] \in {token[i], UpperChar(token[i])}

\* Every way of writing a token in upper and lower case letters.
Casings(token) ==
    LET chars == UNION {{token[i], UpperChar(token[i])} : i \in 1..Len(token)}
    IN {text \in [1..Len(token) -> chars] : SameIgnoringCase(text, token)}

\* What input() can return: every token in lower case and in upper case,
\* "bye" in every casing, a capitalised token, and a text that is not an
\* exit token (a token with a suffix).
ExitInputs ==
    Casings(<<"b", "y", "e">>)
    \cup { <<"e", "x", "i", "t">>, <<"E", "X", "I", "T">>,
           <<"q", "u", "i", "t">>, <<"Q", "u", "i", "t">>,
           <<"g", "o", "o", "d", "b", "y", "e">>,
           <<"G", "O", "O", "D", "B", "Y", "E">> }

\* The text that is not an exit token; it is what the history records as
\* the user's part of a turn.
QueryInputs == { <<"e", "x", "i", "t", "s">> }

Inputs == ExitInputs \cup QueryInputs

\* The answer the backend streams, fragment by fragment; a run delivers a
\* prefix of it before the stream completes or breaks. The loop never looks
\* into a fragment, so one answer with distinct fragments stands for all.
Script == << <<"H", "e", "l">>, <<"l", "o", ",", " ">>, <<"w", "o", "r", "l", "d">>, <<"!">> >>

\* ------------------------------------------------------------ the session
VARIABLES
    pc,            \* position of main(): create, build, clear, input, run,
                   \* stream, close, done
    handle,        \* graphiti_client: "none", "open" or "closed"
    calls,         \* lifecycle calls made on the handle so far, with outcome
    messages,      \* the conversation history (line 173)
    user_input,    \* the text read at line 179
    curr_message,  \* the answer buffer (line 196)
    trace,         \* messages the current run has produced so far
                   \* (empty when no run is open)
    stream,        \* fragments the backend has delivered in this run
                   \* (empty when no run is open)
    turns,         \* queries read so far
    results,       \* search_graphiti: what `await graphiti.search(query)` did
    tool_return,   \* search_graphiti: what the tool handed back
    exc,           \* exception the last step raised ("none": it raised
                   \* nothing); at close and done it is still propagating
    console,       \* the last status line printed
    graph_data     \* the facts the store holds

\* llm_config.initialize_graphiti_with_clean_state and the connection test
\* suite (tests/test_connections.py), each run on its own.
VARIABLES
    clear_data_func,  \* the helper's argument: "none" or "given"
    neo4j_ok,         \* the suite's four results (lines 214-223)
    lmstudio_ok,
    chat_ok,
    graphiti_ok,
    tests_run,        \* the checks the suite has run, with how each ended
    success           \* what the suite's main() returned ("none": not yet)

otherVars == <<clear_data_func, neo4j_ok, lmstudio_ok, chat_ok, graphiti_ok,
               tests_run, success>>

vars == <<pc, handle, calls, messages, user_input, curr_message, trace,
          stream, turns, results, tool_return, exc, console, graph_data,
          otherVars>>

\* The facts a store can hold.
StoredFacts == {"1", "2", "3", "4"}

\* The helper and the suite have not run.
OthersIdle ==
    /\ clear_data_func = "none"
    /\ neo4j_ok = FALSE
    /\ lmstudio_ok = FALSE
    /\ chat_ok = FALSE
    /\ graphiti_ok = FALSE
    /\ tests_run = <<>>
    /\ success = "none"

NoResponse == Response("idle", "none", <<>>)
NoReturn == [status |-> "idle", exc |-> "none", value |-> <<>>]

Call(op, ok) == [op |-> op, ok |-> ok]
Message(kind, content) == [kind |-> kind, content |-> content]

Init ==
    /\ pc = "create"
    /\ handle = "none"
    /\ calls = <<>>
    /\ messages = <<>>
    /\ user_input = <<>>
    /\ curr_message = <<>>
    /\ trace = <<>>
    /\ stream = <<>>
    /\ turns = 0
    /\ results = NoResponse
    /\ tool_return = NoReturn
    /\ exc = "none"
    /\ console = "welcome"
    /\ graph_data = StoredFacts
    /\ OthersIdle

\* Line 157: create_graphiti_client(...) returns the handle.
CreateClient ==
    /\ pc = "create"
    /\ pc' = "build"
    /\ handle' = "open"
    /\ UNCHANGED <<calls, messages, user_input, curr_message, trace,
                   stream, turns, results, tool_return, exc, console>>
    /\ UNCHANGED <<graph_data, otherVars>>

\* Line 157: create_graphiti_client raises; main() ends before any handle
\* exists.
CreateClientFails ==
    /\ pc = "create"
    /\ pc' = "done"
    /\ exc' = "Exception"
    /\ console' = "unexpected error"
    /\ UNCHANGED <<handle, calls, messages, user_input, curr_message, trace,
                   stream, turns, results, tool_return>>
    /\ UNCHANGED <<graph_data, otherVars>>

\* Lines 161-162: build_indices_and_constraints() succeeds.
BuildIndices ==
    /\ pc = "build"
    /\ calls' = Append(calls, Call("build", TRUE))
    /\ console' = "indices built"
    /\ exc' = "none"
    /\ pc' = "clear"
    /\ UNCHANGED <<handle, messages, user_input, curr_message, trace,
                   stream, turns, results, tool_return>>
    /\ UNCHANGED <<graph_data, otherVars>>

\* BuildIndicesFails without the except clause: the failure leaves main().
BuildIndicesFails_fatal ==
    /\ pc = "build"
    /\ calls' = Append(calls, Call("build", FALSE))
    /\ console' = "unexpected error"
    /\ exc' = "Exception"
    /\ pc' = "done"
    /\ UNCHANGED <<handle, messages, user_input, curr_message, trace,
                   stream, turns, results, tool_return>>
    /\ UNCHANGED <<graph_data, otherVars>>

\* BuildIndicesFails with clear_data outside the try block: it is still
\* called after a failed build.
BuildIndicesFails_clears ==
    /\ pc = "build"
    /\ calls' = Append(calls, Call("build", FALSE))
    /\ console' = "using existing indices"
    /\ exc' = "Exception"
    /\ pc' = "clear"
    /\ UNCHANGED <<handle, messages, user_input, curr_message, trace,
                   stream, turns, results, tool_return>>
    /\ UNCHANGED <<graph_data, otherVars>>

\* Lines 161, 170-173: the build raises an Exception; it is reported and the
\* session goes on to the loop, skipping clear_data.
BuildIndicesFails ==
    /\ pc = "build"
    /\ calls' = Append(calls, Call("build", FALSE))
    /\ console' = "using existing indices"
    /\ exc' = "Exception"
    /\ pc' = "input"
    /\ UNCHANGED <<handle, messages, user_input, curr_message, trace,
                   stream, turns, results, tool_return>>
    /\ UNCHANGED <<graph_data, otherVars>>

\* Line 168: clear_data(graphiti_client.driver) succeeds; the try block
\* ends and main() goes on to line 173.
ClearData ==
    /\ pc = "clear"
    /\ calls' = Append(calls, Call("clear", TRUE))
    /\ exc' = "none"
    /\ pc' = "input"
    /\ UNCHANGED <<handle, messages, user_input, curr_message, trace,
                   stream, turns, results, tool_return, console>>
    /\ graph_data' = {}
    /\ UNCHANGED otherVars

\* Lines 168, 170-173: clear_data raises an Exception.
ClearDataFails ==
    /\ pc = "clear"
    /\ calls' = Append(calls, Call("clear", FALSE))
    /\ console' = "using existing indices"
    /\ exc' = "Exception"
    /\ pc' = "input"
    /\ UNCHANGED <<handle, messages, user_input, curr_message, trace,
                   stream, turns, results, tool_return>>
    /\ UNCHANGED <<graph_data, otherVars>>

\* Lines 160-171: an interrupt (KeyboardInterrupt, CancelledError) arrives
\* while the build or the clear is awaited. `except Exception` does not
\* catch it and the try/finally of line 175 has not been entered: main()
\* ends here.
StartupInterrupted ==
    /\ pc \in {"build", "clear"}
    /\ calls' = Append(calls, Call(pc, FALSE))
    /\ exc' = "BaseException"
    /\ console' = "terminated by user"
    /\ pc' = "done"
    /\ UNCHANGED <<handle, messages, user_input, curr_message, trace,
                   stream, turns, results, tool_return>>
    /\ UNCHANGED <<graph_data, otherVars>>

\* Lines 178-184: input() returns an exit token; the loop breaks and
\* control reaches the finally block.
ReadExit ==
    /\ pc = "input"
    /\ \E text \in Inputs :
        /\ IsExit(text)
        /\ user_input' = text
    /\ console' = "goodbye"
    /\ exc' = "none"
    /\ pc' = "close"
    /\ UNCHANGED <<handle, calls, messages, curr_message, trace, stream,
                   turns, results, tool_return>>
    /\ UNCHANGED <<graph_data, otherVars>>

\* Lines 178-195: input() returns any other text; run_stream is entered
\* with that text and the history.
ReadQuery ==
    /\ pc = "input"
    /\ turns < MaxTurns
    /\ \E text \in Inputs :
        /\ ~IsExit(text)
        /\ user_input' = text
        /\ trace' = <<Message("request", text)>>
    /\ turns' = turns + 1
    /\ stream' = <<>>
    /\ console' = "assistant"
    /\ exc' = "none"
    /\ pc' = "run"
    /\ UNCHANGED <<handle, calls, messages, curr_message, results, tool_return>>
    /\ UNCHANGED <<graph_data, otherVars>>

\* Line 179: input() raises (EOFError at end of input, KeyboardInterrupt).
\* The inner try has not been entered: only the finally block applies.
ReadInputFails ==
    /\ pc = "input"
    /\ exc' \in {"Exception", "BaseException"}
    /\ pc' = "close"
    /\ UNCHANGED <<handle, calls, messages, user_input, curr_message, trace,
                   stream, turns, results, tool_return, console>>
    /\ UNCHANGED <<graph_data, otherVars>>

\* Lines 193-195, 80-121: before it answers, the backend calls the tool;
\* search_graphiti runs on what the store responds. Its return value goes
\* back to the backend as a tool-call and a tool-return message of the run;
\* an exception it lets through unwinds the turn: to the handler of line
\* 204 if that catches it, to the finally block if not.
RunTool ==
    /\ pc = "run"
    /\ Len(trace) < 1 + 2 * MaxToolCalls
    /\ \E response \in RunResponses :
        LET outcome == search_graphiti(response)
        IN IF outcome.status = "return"
           THEN /\ trace' = trace \o <<Message("tool-call", <<>>),
                                      Message("tool-return", <<>>)>>
                /\ exc' = "none"
                /\ pc' = "run"
           ELSE /\ trace' = <<>>
                /\ exc' = outcome.exc
                /\ pc' = IF outcome.exc = "Exception" THEN "input" ELSE "close"
    /\ console' = IF pc' = "input" THEN "error" ELSE console
    /\ UNCHANGED <<handle, calls, messages, user_input, curr_message, stream,
                   turns, results, tool_return>>
    /\ UNCHANGED <<graph_data, otherVars>>

\* Lines 195-196: run_stream yields the result; the buffer starts empty.
StreamStart ==
    /\ pc = "run"
    /\ curr_message' = <<>>
    /\ exc' = "none"
    /\ pc' = "stream"
    /\ UNCHANGED <<handle, calls, messages, user_input, trace, stream, turns,
                   results, tool_return, console>>
    /\ UNCHANGED <<graph_data, otherVars>>

\* The loop body with `message + curr_message` for `curr_message += message`.
ReceiveFragment_front(message) ==
    /\ stream' = Append(stream, message)
    /\ curr_message' = message \o curr_message
    /\ exc' = "none"
    /\ UNCHANGED <<pc, handle, calls, messages, user_input, trace, turns,
                   results, tool_return, console>>
    /\ UNCHANGED <<graph_data, otherVars>>

\* The loop body with messages.extend moved into the loop.
ReceiveFragment_extends(message) ==
    /\ stream' = Append(stream, message)
    /\ curr_message' = curr_message \o message
    /\ messages' = Append(messages, [kind |-> "response", content |-> curr_message'])
    /\ exc' = "none"
    /\ UNCHANGED <<pc, handle, calls, user_input, trace, turns, results,
                   tool_return, console>>
    /\ UNCHANGED <<graph_data, otherVars>>

\* Lines 197-199, the loop body: the fragment is added to the buffer.
ReceiveFragment(message) ==
    /\ stream' = Append(stream, message)
    /\ curr_message' = curr_message \o message
    /\ exc' = "none"
    /\ UNCHANGED <<pc, handle, calls, messages, user_input, trace, turns,
                   results, tool_return, console>>
    /\ UNCHANGED <<graph_data, otherVars>>

\* Lines 197-199: the next fragment of the answer arrives.
StreamFragment ==
    /\ pc = "stream"
    /\ Len(stream) < MaxFragments
    /\ Len(stream) < Len(Script)
    /\ ReceiveFragment(Script[Len(stream) + 1])

\* result.all_messages(): the message_history the run was given, followed
\* by the messages of the run, the final response included.
all_messages(message_history, new_messages) == message_history \o new_messages

\* StreamComplete with the run's messages put in front of the history.
StreamComplete_front ==
    /\ pc = "stream"
    /\ messages' = Append(trace, Message("response", curr_message)) \o messages
    /\ trace' = <<>>
    /\ stream' = <<>>
    /\ exc' = "none"
    /\ pc' = "input"
    /\ UNCHANGED <<handle, calls, user_input, curr_message, turns, results,
                   tool_return, console>>
    /\ UNCHANGED <<graph_data, otherVars>>

\* Lines 197-202: the stream ends; the run's messages are added to the
\* history and the loop returns to its head.
StreamComplete ==
    /\ pc = "stream"
    /\ messages' = messages \o
           all_messages(messages, Append(trace, Message("response", curr_message)))
    /\ trace' = <<>>
    /\ stream' = <<>>
    /\ exc' = "none"
    /\ pc' = "input"
    /\ UNCHANGED <<handle, calls, user_input, curr_message, turns, results,
                   tool_return, console>>
    /\ UNCHANGED <<graph_data, otherVars>>

\* TurnFails with a handler that lets the failure end the loop.
TurnFails_fatal ==
    /\ pc \in {"run", "stream"}
    /\ console' = "error"
    /\ trace' = <<>>
    /\ stream' = <<>>
    /\ exc' = "Exception"
    /\ pc' = "close"
    /\ UNCHANGED <<handle, calls, messages, user_input, curr_message, turns,
                   results, tool_return>>
    /\ UNCHANGED <<graph_data, otherVars>>

\* TurnFails with a handler that keeps what the buffer holds as an answer.
TurnFails_persists ==
    /\ pc \in {"run", "stream"}
    /\ console' = "error"
    /\ messages' = Append(messages, Message("response", curr_message))
    /\ trace' = <<>>
    /\ stream' = <<>>
    /\ exc' = "Exception"
    /\ pc' = "input"
    /\ UNCHANGED <<handle, calls, user_input, curr_message, turns, results,
                   tool_return>>
    /\ UNCHANGED <<graph_data, otherVars>>

\* Lines 186-219: the backend call fails with an Exception (unreachable
\* model, disconnect in mid-stream); the handler of line 204 prints it and
\* the loop returns to its head.
TurnFails ==
    /\ pc \in {"run", "stream"}
    /\ console' = "error"
    /\ trace' = <<>>
    /\ stream' = <<>>
    /\ exc' = "Exception"
    /\ pc' = "input"
    /\ UNCHANGED <<handle, calls, messages, user_input, curr_message, turns,
                   results, tool_return>>
    /\ UNCHANGED <<graph_data, otherVars>>

\* Lines 186-222: an interrupt arrives during the turn; line 204 does not
\* catch it and control reaches the finally block.
TurnInterrupted ==
    /\ pc \in {"run", "stream"}
    /\ trace' = <<>>
    /\ stream' = <<>>
    /\ exc' = "BaseException"
    /\ pc' = "close"
    /\ UNCHANGED <<handle, calls, messages, user_input, curr_message, turns,
                   results, tool_return, console>>
    /\ UNCHANGED <<graph_data, otherVars>>

\* Close with the close() call inside the loop: the loop goes on after it.
Close_in_loop ==
    /\ pc = "close"
    /\ handle' = "closed"
    /\ calls' = Append(calls, Call("close", TRUE))
    /\ console' = "connection closed"
    /\ pc' = "input"
    /\ UNCHANGED <<messages, user_input, curr_message, trace, stream, turns,
                   results, tool_return, exc>>
    /\ UNCHANGED <<graph_data, otherVars>>

\* Lines 220-234: the finally block closes the handle; main() returns or
\* the pending exception leaves it, and the process ends.
Close ==
    /\ pc = "close"
    /\ handle' = "closed"
    /\ calls' = Append(calls, Call("close", TRUE))
    /\ console' = IF exc = "BaseException" THEN "terminated by user"
                  ELSE IF exc = "Exception" THEN "unexpected error"
                  ELSE "connection closed"
    /\ pc' = "done"
    /\ UNCHANGED <<messages, user_input, curr_message, trace, stream, turns,
                   results, tool_return, exc>>
    /\ UNCHANGED <<graph_data, otherVars>>

Next ==
    \/ CreateClient
    \/ CreateClientFails
    \/ BuildIndices
    \/ BuildIndicesFails
    \/ ClearData
    \/ ClearDataFails
    \/ StartupInterrupted
    \/ ReadExit
    \/ ReadQuery
    \/ ReadInputFails
    \/ RunTool
    \/ StreamStart
    \/ StreamFragment
    \/ StreamComplete
    \/ TurnFails
    \/ TurnInterrupted
    \/ Close

Spec == Init /\ [][Next]_vars

\* ------------------------------------------------- the tool on its own
\* search_graphiti applied to one response of the store: results is the
\* response, tool_return what the tool hands back.
SearchInit ==
    /\ pc = "search"
    /\ results \in Responses
    /\ tool_return = NoReturn
    /\ handle = "open"
    /\ calls = <<>>
    /\ messages = <<>>
    /\ user_input = <<>>
    /\ curr_message = <<>>
    /\ trace = <<>>
    /\ stream = <<>>
    /\ turns = 0
    /\ exc = "none"
    /\ console = "assistant"
    /\ graph_data = StoredFacts
    /\ OthersIdle

SearchCall ==
    /\ pc = "search"
    /\ tool_return' = search_graphiti(results)
    /\ exc' = tool_return'.exc
    /\ pc' = "returned"
    /\ UNCHANGED <<handle, calls, messages, user_input, curr_message, trace,
                   stream, turns, results, console>>
    /\ UNCHANGED <<graph_data, otherVars>>

SearchNext == SearchCall

SearchSpec == SearchInit /\ [][SearchNext]_vars

\* ------------------------------------------- the stream loop on its own
\* The fragments a backend can deliver: empty ones, repeated ones, ones that
\* run into each other.
Fragments ==
    { <<>>, <<"H", "e", "l">>, <<"l", "o", ",", " ">>, <<"l">>,
      <<"w", "o", "r", "l", "d">>, <<"H", "e", "l", "l", "o">> }

\* The session when the stream of its first run opens (lines 157-196 done,
\* build and clear succeeded, no tool call).
StreamInit ==
    /\ pc = "stream"
    /\ handle = "open"
    /\ calls = <<Call("build", TRUE), Call("clear", TRUE)>>
    /\ messages = <<>>
    /\ user_input \in QueryInputs
    /\ curr_message = <<>>
    /\ trace = <<Message("request", user_input)>>
    /\ stream = <<>>
    /\ turns = 1
    /\ results = NoResponse
    /\ tool_return = NoReturn
    /\ exc = "none"
    /\ console = "assistant"
    /\ graph_data = {}
    /\ OthersIdle

\* Lines 197-199: any fragment arrives.
StreamAnyFragment ==
    /\ pc = "stream"
    /\ Len(stream) < MaxFragments
    /\ \E message \in Fragments : ReceiveFragment(message)

StreamNext ==
    \/ StreamAnyFragment
    \/ StreamComplete
    \/ TurnFails
    \/ TurnInterrupted

StreamSpec == StreamInit /\ [][StreamNext]_vars

\* ------------------- llm_config.initialize_graphiti_with_clean_state
\* The call initialize_graphiti_with_clean_state(graphiti_client,
\* clear_data_func) on an open handle: clear_data_func is None ("none") or a
\* function ("given"), the store holds any part of StoredFacts.
InitializeInit ==
    /\ pc = "init_build"
    /\ handle = "open"
    /\ calls = <<>>
    /\ messages = <<>>
    /\ user_input = <<>>
    /\ curr_message = <<>>
    /\ trace = <<>>
    /\ stream = <<>>
    /\ turns = 0
    /\ results = NoResponse
    /\ tool_return = NoReturn
    /\ exc = "none"
    /\ console = "none"
    /\ graph_data \in SUBSET StoredFacts
    /\ clear_data_func \in {"none", "given"}
    /\ neo4j_ok = FALSE /\ lmstudio_ok = FALSE
    /\ chat_ok = FALSE /\ graphiti_ok = FALSE /\ tests_run = <<>> /\ success = "none"

\* What a step of the function leaves alone.
InitializeFrame ==
    UNCHANGED <<handle, messages, user_input, curr_message, trace, stream,
                turns, results, tool_return, clear_data_func, neo4j_ok,
                lmstudio_ok, chat_ok, graphiti_ok, tests_run, success>>

\* Line 83 succeeds; line 86 tests clear_data_func.
InitializeBuild ==
    /\ pc = "init_build"
    /\ calls' = Append(calls, Call("build", TRUE))
    /\ pc' = IF clear_data_func # "none" THEN "init_clear" ELSE "init_returned"
    /\ UNCHANGED <<exc, console, graph_data>>
    /\ InitializeFrame

\* Line 83 raises: nothing catches it.
InitializeBuildFails ==
    /\ pc = "init_build"
    /\ \E e \in {"Exception", "BaseException"} : exc' = e
    /\ calls' = Append(calls, Call("build", FALSE))
    /\ pc' = "init_raised"
    /\ UNCHANGED <<console, graph_data>>
    /\ InitializeFrame

\* Lines 87-89: the clear function is called and succeeds.
InitializeClear ==
    /\ pc = "init_clear"
    /\ calls' = Append(calls, Call("clear", TRUE))
    /\ graph_data' = {}
    /\ console' = "graph data cleared"
    /\ pc' = "init_rebuild"
    /\ UNCHANGED exc
    /\ InitializeFrame

\* InitializeClearFails with the failure of the clear function swallowed.
InitializeClearFails_swallowed ==
    /\ pc = "init_clear"
    /\ calls' = Append(calls, Call("clear", FALSE))
    /\ console' = "clearing"
    /\ pc' = "init_rebuild"
    /\ UNCHANGED <<exc, graph_data>>
    /\ InitializeFrame

\* Lines 87-88: the clear function raises after the first print.
InitializeClearFails ==
    /\ pc = "init_clear"
    /\ \E e \in {"Exception", "BaseException"} : exc' = e
    /\ calls' = Append(calls, Call("clear", FALSE))
    /\ console' = "clearing"
    /\ pc' = "init_raised"
    /\ UNCHANGED graph_data
    /\ InitializeFrame

\* Line 92 succeeds and the function returns.
InitializeRebuild ==
    /\ pc = "init_rebuild"
    /\ calls' = Append(calls, Call("build", TRUE))
    /\ pc' = "init_returned"
    /\ UNCHANGED <<exc, console, graph_data>>
    /\ InitializeFrame

\* Line 92 raises.
InitializeRebuildFails ==
    /\ pc = "init_rebuild"
    /\ \E e \in {"Exception", "BaseException"} : exc' = e
    /\ calls' = Append(calls, Call("build", FALSE))
    /\ pc' = "init_raised"
    /\ UNCHANGED <<console, graph_data>>
    /\ InitializeFrame

InitializeNext ==
    \/ InitializeBuild
    \/ InitializeBuildFails
    \/ InitializeClear
    \/ InitializeClearFails
    \/ InitializeRebuild
    \/ InitializeRebuildFails

InitializeSpec == InitializeInit /\ [][InitializeNext]_vars

\* ---------------------------------- tests/test_connections.py: the suite
\* How the body of a check can end: "ok" is its `return True`; every other
\* outcome is an exception that its `except` clauses turn into `return
\* False`, or (no_models) the early `return False` of test_simple_chat.
Neo4jOutcomes == {"ok", "import_error", "driver_error", "connectivity_error", "query_error"}
LmstudioOutcomes == {"ok", "import_error", "list_error"}
ChatOutcomes == {"ok", "list_error", "no_models", "completion_error"}
GraphitiOutcomes == {"ok", "init_error", "build_error", "close_error"}

test_neo4j_connection(outcome) == outcome = "ok"
test_lmstudio_connection(outcome) == outcome = "ok"
test_simple_chat(outcome) == outcome = "ok"
test_graphiti_basic(outcome) == outcome = "ok"

\* One check that ran, and how its body ended.
TestRun(test, outcome) == [test |-> test, outcome |-> outcome]

\* main() of the suite after its configuration banner (lines 201-211);
\* chat_ok and graphiti_ok are the False of lines 217 and 221.
SuiteInit ==
    /\ pc = "test_neo4j"
    /\ handle = "none"
    /\ calls = <<>>
    /\ messages = <<>>
    /\ user_input = <<>>
    /\ curr_message = <<>>
    /\ trace = <<>>
    /\ stream = <<>>
    /\ turns = 0
    /\ results = NoResponse
    /\ tool_return = NoReturn
    /\ exc = "none"
    /\ console = "configuration"
    /\ graph_data = StoredFacts
    /\ clear_data_func = "none"
    /\ neo4j_ok = FALSE /\ lmstudio_ok = FALSE
    /\ chat_ok = FALSE /\ graphiti_ok = FALSE
    /\ tests_run = <<>>
    /\ success = "none"

\* What no step of the suite changes.
SuiteFrame ==
    UNCHANGED <<handle, calls, messages, user_input, curr_message, trace,
                stream, turns, results, tool_return, graph_data,
                clear_data_func>>

\* Line 214.
TestNeo4jConnection ==
    /\ pc = "test_neo4j"
    /\ \E outcome \in Neo4jOutcomes :
          /\ tests_run' = Append(tests_run, TestRun("neo4j", outcome))
          /\ neo4j_ok' = test_neo4j_connection(outcome)
    /\ pc' = "test_lmstudio"
    /\ UNCHANGED <<lmstudio_ok, chat_ok, graphiti_ok, success, exc, console>>
    /\ SuiteFrame

\* Line 215.
TestLmstudioConnection ==
    /\ pc = "test_lmstudio"
    /\ \E outcome \in LmstudioOutcomes :
          /\ tests_run' = Append(tests_run, TestRun("lmstudio", outcome))
          /\ lmstudio_ok' = test_lmstudio_connection(outcome)
    /\ pc' = "test_chat"
    /\ UNCHANGED <<neo4j_ok, chat_ok, graphiti_ok, success, exc, console>>
    /\ SuiteFrame

\* TestSimpleChat without the test of line 218.
TestSimpleChat_unconditional ==
    /\ pc = "test_chat"
    /\ \E outcome \in ChatOutcomes :
          /\ tests_run' = Append(tests_run, TestRun("chat", outcome))
          /\ chat_ok' = test_simple_chat(outcome)
    /\ pc' = "test_graphiti"
    /\ UNCHANGED <<neo4j_ok, lmstudio_ok, graphiti_ok, success, exc, console>>
    /\ SuiteFrame

\* Lines 218-219 with lmstudio_ok true.
TestSimpleChat ==
    /\ pc = "test_chat"
    /\ lmstudio_ok
    /\ \E outcome \in ChatOutcomes :
          /\ tests_run' = Append(tests_run, TestRun("chat", outcome))
          /\ chat_ok' = test_simple_chat(outcome)
    /\ pc' = "test_graphiti"
    /\ UNCHANGED <<neo4j_ok, lmstudio_ok, graphiti_ok, success, exc, console>>
    /\ SuiteFrame

\* Line 218 with lmstudio_ok false: chat_ok stays False.
SkipSimpleChat ==
    /\ pc = "test_chat"
    /\ ~lmstudio_ok
    /\ pc' = "test_graphiti"
    /\ UNCHANGED <<tests_run, neo4j_ok, lmstudio_ok, chat_ok, graphiti_ok,
                   success, exc, console>>
    /\ SuiteFrame

\* Lines 222-223 with both connection checks passed.
TestGraphitiBasic ==
    /\ pc = "test_graphiti"
    /\ neo4j_ok /\ lmstudio_ok
    /\ \E outcome \in GraphitiOutcomes :
          /\ tests_run' = Append(tests_run, TestRun("graphiti", outcome))
          /\ graphiti_ok' = test_graphiti_basic(outcome)
    /\ pc' = "summary"
    /\ UNCHANGED <<neo4j_ok, lmstudio_ok, chat_ok, success, exc, console>>
    /\ SuiteFrame

\* Line 222 false: graphiti_ok stays False.
SkipGraphitiBasic ==
    /\ pc = "test_graphiti"
    /\ ~(neo4j_ok /\ lmstudio_ok)
    /\ pc' = "summary"
    /\ UNCHANGED <<tests_run, neo4j_ok, lmstudio_ok, chat_ok, graphiti_ok,
                   success, exc, console>>
    /\ SuiteFrame

\* Lines 225-239: the summary, and all([...]) returned to line 242.
Summary ==
    /\ pc = "summary"
    /\ LET all == neo4j_ok /\ lmstudio_ok /\ chat_ok /\ graphiti_ok
       IN /\ console' = IF all THEN "all tests passed" ELSE "some tests failed"
          /\ success' = IF all THEN "True" ELSE "False"
    /\ pc' = "exit"
    /\ UNCHANGED <<tests_run, neo4j_ok, lmstudio_ok, chat_ok, graphiti_ok, exc>>
    /\ SuiteFrame

\* Line 243: exit(0 if success else 1).
Exit ==
    /\ pc = "exit"
    /\ console' = IF success = "True" THEN "exit 0" ELSE "exit 1"
    /\ pc' = "exited"
    /\ UNCHANGED <<tests_run, neo4j_ok, lmstudio_ok, chat_ok, graphiti_ok,
                   success, exc>>
    /\ SuiteFrame

\* A KeyboardInterrupt while a check runs: `except Exception` does not catch
\* it, main() is left and nothing is reported.
SuiteInterrupted ==
    /\ \/ pc \in {"test_neo4j", "test_lmstudio"}
       \/ pc = "test_chat" /\ lmstudio_ok
       \/ pc = "test_graphiti" /\ neo4j_ok /\ lmstudio_ok
    /\ exc' = "BaseException"
    /\ pc' = "interrupted"
    /\ UNCHANGED <<tests_run, neo4j_ok, lmstudio_ok, chat_ok, graphiti_ok,
                   success, console>>
    /\ SuiteFrame

SuiteNext ==
    \/ TestNeo4jConnection
    \/ TestLmstudioConnection
    \/ TestSimpleChat
    \/ SkipSimpleChat
    \/ TestGraphitiBasic
    \/ SkipGraphitiBasic
    \/ Summary
    \/ Exit
    \/ SuiteInterrupted

SuiteSpec == SuiteInit /\ [][SuiteNext]_vars

\* ---------------------------------------------------------------- claims
\* The identifier and the statement of a raw record, when it has them.
HasIdAndStatement(result) ==
    /\ hasattr(result, "uuid") /\ hasattr(result, "fact")
    /\ result.uuid.t = "str" /\ result.fact.t = "str"

\* A raw record with a non-empty identifier and a non-empty statement.
WellFormed(result) ==
    /\ HasIdAndStatement(result)
    /\ result.uuid.v # "" /\ result.fact.v # ""

\* A query failure: the search raised an Exception, returned None, returned
\* something that is not a list, or returned a list holding an item without
\* identifier or statement attribute.
QueryFailure(response) ==
    \/ response.kind = "raise" /\ response.exc = "Exception"
    \/ response.kind \in {"none", "scalar"}
    \/ /\ response.kind = "list"
       /\ \E i \in 1..Len(response.items) :
              ~(hasattr(response.items[i], "uuid") /\ hasattr(response.items[i], "fact"))

\* C1: whenever the search fails (raises an Exception, returns None or a
\* malformed payload), search_graphiti returns the empty list and raises
\* nothing.
C1_FailureYieldsEmpty ==
    (pc = "returned" /\ QueryFailure(results)) =>
        (tool_return = Return(<<>>) /\ exc = "none")

C1_Witness ==
    /\ pc = "returned"
    /\ results = Response("raise", "Exception", <<>>)
    /\ tool_return = Return(<<>>)

Record1 == [uuid |-> Str("1"), fact |-> Str("A")]
Record2 == [uuid |-> Str("2"), fact |-> Str("B")]
RecordEmptyId == [uuid |-> Str(""), fact |-> Str("bad")]

\* The identifiers and the statements of the Facts in a returned list.
IdsOf(facts) == [i \in 1..Len(facts) |-> <<facts[i].uuid, facts[i].fact>>]

C10_OneFactPerRecordInOrder ==
    (/\ pc = "returned"
     /\ results.kind = "list"
     /\ \A i \in 1..Len(results.items) : WellFormed(results.items[i])) =>
        /\ tool_return.status = "return"
        /\ Len(tool_return.value) = Len(results.items)
        /\ \A i \in 1..Len(results.items) :
              /\ tool_return.value[i].uuid = results.items[i].uuid
              /\ tool_return.value[i].fact = results.items[i].fact

C10_Witness ==
    /\ pc = "returned"
    /\ results = Response("list", "none", <<Record2, Record1>>)
    /\ tool_return.value[1].uuid = Str("2")
    /\ tool_return.value[2].uuid = Str("1")

\* The value a Fact has for an optional attribute of its record: none when
\* the record lacks the attribute (or has None), the string form of a
\* timestamp, the source identifier as it is.
OptionalField(result, name) ==
    IF ~hasattr(result, name) THEN None_
    ELSE IF result[name].t = "datetime" THEN Str(str(result[name]))
    ELSE result[name]

\* The Fact of a record that has an identifier and a statement.
FactOf(result) ==
    [uuid |-> result.uuid, fact |-> result.fact,
     valid_at |-> OptionalField(result, "valid_at"),
     invalid_at |-> OptionalField(result, "invalid_at"),
     source_node_uuid |-> OptionalField(result, "source_node_uuid")]

TurnEnds == pc \in {"run", "stream"} /\ pc' = "input"

\* C3 (as stated): the history grows by exactly two entries in a turn that
\* succeeds and by none in a turn whose backend call fails.
C3_HistoryGrowsByTwo ==
    [][TurnEnds =>
         Len(messages') = Len(messages) + (IF exc' = "none" THEN 2 ELSE 0)]_vars

\* The number of close() calls made on the handle.
CloseCalls == Cardinality({i \in 1..Len(calls) : calls[i].op = "close"})

\* C4 (as stated): when the process has ended and a handle had been created,
\* close() has been called on it exactly once.
C4_ClosedExactlyOnce ==
    (pc = "done" /\ handle # "none") => CloseCalls = 1

\* C5 (as stated): once the session reads input, a clear that succeeded is
\* followed by exactly one more index build.
C5_RebuildAfterClear ==
    pc \in {"input", "run", "stream", "close"} =>
        \A i \in 1..Len(calls) :
            calls[i] = Call("clear", TRUE) =>
                Cardinality({j \in (i + 1)..Len(calls) : calls[j].op = "build"}) = 1

\* C6: a backend failure in a turn is reported, leaves the handle open and
\* unused, and returns the loop to reading input.
C6_FailureKeepsSession ==
    [][(pc \in {"run", "stream"} /\ exc' = "Exception") =>
         /\ pc' = "input"
         /\ console' = "error"
         /\ handle' = "open"
         /\ calls' = calls]_vars

C6_Witness ==
    /\ pc = "input"
    /\ exc = "Exception"
    /\ console = "error"
    /\ handle = "open"
    /\ CloseCalls = 0

\* C7: a turn that is aborted (backend error or interrupt) after fragments
\* have arrived leaves the history as it was, and the buffer of the next
\* stream starts empty.
C7_AbortLeavesHistory ==
    [][/\ (pc = "stream" /\ stream # <<>> /\ exc' # "none") => messages' = messages
       /\ (pc # "stream" /\ pc' = "stream") => curr_message' = <<>>]_vars

C7_Witness ==
    /\ pc = "input"
    /\ exc = "Exception"
    /\ console = "error"
    /\ curr_message = Script[1]
    /\ messages = <<>>

\* C8: an input that is an exit token in any letter casing ends the loop:
\* no run is started for it and the history is unchanged.
C8_ExitTokenEndsLoop ==
    [][(/\ pc = "input"
        /\ pc' \in {"run", "close"}
        /\ exc' = "none"
        /\ \E token \in ExitTokens : SameIgnoringCase(user_input', token)) =>
         /\ pc' = "close"
         /\ messages' = messages
         /\ trace' = trace
         /\ turns' = turns]_vars

C8_Witness ==
    /\ pc = "close"
    /\ exc = "none"
    /\ user_input = <<"E", "X", "I", "T">>
    /\ messages # <<>>

\* C9 (as stated): clear_data is never called. main() reads no clean-start
\* setting, so every session is one started without it.
C9_ClearIsOptIn ==
    \A i \in 1..Len(calls) : calls[i].op # "clear"

\* C11: an Exception from the index build or from the clearing at session
\* start is reported and the session enters the loop with the same, open
\* handle; main() ends with an error before the loop only when the handle
\* could not be created.
C11_StartupFailureNotFatal ==
    [][/\ (pc \in {"build", "clear"} /\ exc' = "Exception") =>
             /\ pc' = "input"
             /\ console' = "using existing indices"
             /\ handle = "open" /\ handle' = "open"
       /\ (pc # "close" /\ pc' = "done" /\ exc' = "Exception") =>
             (pc = "create" /\ handle' = "none")]_vars

C11_Witness ==
    /\ pc = "input"
    /\ calls = <<Call("build", TRUE), Call("clear", FALSE)>>
    /\ handle = "open"
    /\ console = "using existing indices"

\* The fragments of a stream joined in order.
RECURSIVE Concatenation(_)
Concatenation(fragments) ==
    IF fragments = <<>> THEN <<>>
    ELSE Head(fragments) \o Concatenation(Tail(fragments))

\* C12: while a stream is open the buffer is the concatenation of the
\* fragments delivered so far, and when the stream completes the answer is
\* the concatenation of all of them.
C12_BufferIsConcatenation ==
    [][/\ pc' = "stream" => curr_message' = Concatenation(stream')
       /\ (pc = "stream" /\ pc' = "input" /\ exc' = "none") =>
             curr_message' = Concatenation(stream)]_vars

C12_Witness ==
    /\ pc = "input"
    /\ exc = "none"
    /\ curr_message = <<"H", "e", "l", "l", "o", ",", " ">>
    /\ messages # <<>>

\* s is an initial part of t.
IsPrefix(s, t) == Len(s) <= Len(t) /\ SubSeq(t, 1, Len(s)) = s

\* C14: every step leaves the history it found as the initial part of the
\* history it leaves: entries are only added at the end.
C14_HistoryAppendOnly ==
    [][IsPrefix(messages, messages')]_vars

C14_Witness ==
    /\ pc = "input"
    /\ turns = 2
    /\ Len(messages) > 2
    /\ messages[1].kind = "request"

\* C15: the history changes only in the step that completes a stream, not
\* while fragments arrive; a run ends only by completing its stream or by
\* failing; and input is read only when no run is open.
C15_TurnsSequential ==
    [][/\ messages' # messages => (pc = "stream" /\ pc' = "input" /\ exc' = "none")
       /\ (pc \in {"run", "stream"} /\ pc' = "input") =>
             (exc' = "Exception" \/ (pc = "stream" /\ messages' # messages))
       /\ (turns' # turns \/ (pc' = "run" /\ pc # "run")) =>
             (pc = "input" /\ trace = <<>> /\ stream = <<>>)]_vars

C15_Witness ==
    /\ pc = "run"
    /\ turns = 2
    /\ messages # <<>>

\* C18: once close() has been called the handle is used no more and no input
\* is read: close is the last call and main() has ended, with no step left.
C18_NothingAfterClose ==
    handle = "closed" =>
        /\ pc = "done"
        /\ calls[Len(calls)].op = "close"
        /\ CloseCalls = 1
        /\ ~ENABLED Next

C18_Witness ==
    /\ handle = "closed"
    /\ turns > 0
    /\ messages # <<>>

\* C19: clear_data is called only after the first build succeeded; after a
\* build that failed it is never called, and the session is in its loop
\* unless the failure was an interrupt.
C19_ClearOnlyAfterBuild ==
    /\ \A i \in 1..Len(calls) :
          calls[i].op = "clear" => (i = 2 /\ calls[1] = Call("build", TRUE))
    /\ (calls # <<>> /\ calls[1] = Call("build", FALSE)) =>
          /\ pc # "clear"
          /\ \A i \in 1..Len(calls) : calls[i].op # "clear"
          /\ exc # "BaseException" => pc \in {"input", "run", "stream", "close", "done"}
          /\ (pc = "done" /\ CloseCalls = 0) => exc = "BaseException"

C19_Witness ==
    /\ pc = "run"
    /\ calls = <<Call("build", FALSE)>>

\* C16: with a clear function and every call succeeding the calls are
\* build, clear, build; without one there is the one build and no clear; a
\* clear that fails is the last call and its exception leaves the function.
C16_BuildClearBuild ==
    /\ (pc = "init_returned" /\ clear_data_func = "given") =>
          /\ calls = <<Call("build", TRUE), Call("clear", TRUE), Call("build", TRUE)>>
          /\ exc = "none"
    /\ (pc = "init_returned" /\ clear_data_func = "none") =>
          /\ calls = <<Call("build", TRUE)>>
          /\ exc = "none"
    /\ clear_data_func = "none" =>
          \A i \in 1..Len(calls) : calls[i].op # "clear"
    /\ \A i \in 1..Len(calls) :
          calls[i] = Call("clear", FALSE) =>
              /\ calls = <<Call("build", TRUE), Call("clear", FALSE)>>
              /\ pc = "init_raised"
              /\ exc # "none"

C16_Witness ==
    /\ pc = "init_raised"
    /\ clear_data_func = "given"
    /\ calls = <<Call("build", TRUE), Call("clear", FALSE)>>
    /\ exc = "Exception"
    /\ graph_data = StoredFacts

\* The check of that name ran, and it ran with the outcome "ok".
Ran(test) == \E i \in 1..Len(tests_run) : tests_run[i].test = test
Passed(test) == \E i \in 1..Len(tests_run) : tests_run[i] = TestRun(test, "ok")

\* C17: the chat check runs only after the LM Studio check passed, the
\* Graphiti check only after the Neo4j and LM Studio checks both passed; a
\* check that did not run is reported as failed; and the suite reports
\* success (exit status 0) exactly when the four checks ran and passed.
C17_SuiteGatesAndVerdict ==
    /\ Ran("chat") => Passed("lmstudio")
    /\ Ran("graphiti") => (Passed("neo4j") /\ Passed("lmstudio"))
    /\ chat_ok <=> Passed("chat")
    /\ graphiti_ok <=> Passed("graphiti")
    /\ success # "none" =>
          (success = "True" <=>
              (Passed("neo4j") /\ Passed("lmstudio") /\ Passed("chat") /\ Passed("graphiti")))
    /\ pc = "exited" =>
          /\ success # "none"
          /\ console = IF success = "True" THEN "exit 0" ELSE "exit 1"

C17_Witness ==
    /\ pc = "exited"
    /\ tests_run = <<TestRun("neo4j", "query_error"), TestRun("lmstudio", "ok"),
                     TestRun("chat", "ok")>>
    /\ ~graphiti_ok
    /\ success = "False"
    /\ console = "exit 1"

====
